---- MODULE Spec2Model ----
(***************************************************************************)
(* Model of src/mssql-generator.py: the catalog of string transforms, the  *)
(* module-level construction of the `variants` list and the __main__      *)
(* printing loop.                                                          *)
(*                                                                         *)
(* A Python str is a sequence of code points (naturals), so that ord(),    *)
(* the number formatting of the f-strings, UTF-8 encoding and base64 are   *)
(* computed rather than assumed.  The outcomes of random.choice are a      *)
(* stream of booleans: TRUE selects the first element of the list given    *)
(* to random.choice, FALSE the second.                                     *)
(***************************************************************************)
EXTENDS Naturals, Sequences, FiniteSets

VARIABLES fn, arg, res1, res2, seed, pc, variants, printed

vars == <<fn, arg, res1, res2, seed, pc, variants, printed>>

(***************************************************************************)
(* Bounds of the model.                                                    *)
(***************************************************************************)
\* longest enumerated input string
MaxLen == 2
\* longest enumerated pattern of random.choice outcomes; a pattern repeats
\* cyclically, so every outcome sequence of at most MaxRnd draws is covered
MaxRnd == 3
\* longest enumerated pattern the shared generator of a script run is seeded with
MaxSeed == 5

(***************************************************************************)
(* String literals of the source, as code points.                          *)
(***************************************************************************)
\* line 8: "'; WAITFOR DELAY '00:00:05'--"
base == <<39, 59, 32, 87, 65, 73, 84, 70, 79, 82, 32, 68, 69, 76, 65, 89, 32, 39, 48, 48, 58, 48, 48, 58, 48, 53, 39, 45, 45>>

\* 'WAITFOR'
sWAITFOR == <<87, 65, 73, 84, 70, 79, 82>>
\* 'WAiTfOr   '
sWAiTfOr == <<87, 65, 105, 84, 102, 79, 114, 32, 32, 32>>
\* 'DELAY'
sDELAY == <<68, 69, 76, 65, 89>>
\* 'DeLaY '
sDeLaY == <<68, 101, 76, 97, 89, 32>>
\* '/**/'
sComment == <<47, 42, 42, 47>>
\* 'CHAR('
sCHAR == <<67, 72, 65, 82, 40>>
\* 'NCHAR('
sNCHAR == <<78, 67, 72, 65, 82, 40>>
\* "'+CHAR(0)+'"
sNullEnc == <<39, 43, 67, 72, 65, 82, 40, 48, 41, 43, 39>>
\* 'WAITFOR DELAY'
sWaitforDelay == <<87, 65, 73, 84, 70, 79, 82, 32, 68, 69, 76, 65, 89>>
\* 'WAITFOR GET_LOCK'
sWaitforGetLock == <<87, 65, 73, 84, 70, 79, 82, 32, 71, 69, 84, 95, 76, 79, 67, 75>>
\* 'UNION ALL'
sUnionAll == <<85, 78, 73, 79, 78, 32, 65, 76, 76>>
\* 'UNION'
sUnion == <<85, 78, 73, 79, 78>>
\* 'DUNION'
sDunion == <<68, 85, 78, 73, 79, 78>>
(***************************************************************************)
(* Python built-ins used by the transforms.                                *)
(***************************************************************************)
\* str.upper() of one character; ASCII letters change, the other characters
\* of the model's alphabet have no case
Upper(c) == IF c \in 97..122 THEN c - 32 ELSE c

\* str.lower() of one character
Lower(c) == IF c \in 65..90 THEN c + 32 ELSE c

\* str.isalpha() of one character of the model's alphabet
IsAlpha(c) == c \in (65..90) \cup (97..122)

RECURSIVE Replace(_, _, _)
\* str.replace(old, new) for a non-empty old: leftmost, non-overlapping
Replace(s, old, new) ==
  IF Len(s) < Len(old) THEN s
  ELSE IF SubSeq(s, 1, Len(old)) = old
       THEN new \o Replace(SubSeq(s, Len(old) + 1, Len(s)), old, new)
       ELSE <<s[1]>> \o Replace(Tail(s), old, new)

RECURSIVE Join(_, _)
\* sep.join(parts)
Join(sep, parts) ==
  IF parts = <<>> THEN <<>>
  ELSE IF Len(parts) = 1 THEN parts[1]
  ELSE parts[1] \o sep \o Join(sep, Tail(parts))

RECURSIVE Dec(_)
\* f'{n}': decimal digits of n
Dec(n) == IF n < 10 THEN <<48 + n>> ELSE Dec(n \div 10) \o <<48 + (n % 10)>>

HexDigitLower(d) == IF d < 10 THEN 48 + d ELSE 87 + d

HexDigitUpper(d) == IF d < 10 THEN 48 + d ELSE 55 + d

RECURSIVE HexLower(_)
\* f'{n:x}'
HexLower(n) ==
  IF n < 16 THEN <<HexDigitLower(n)>>
  ELSE HexLower(n \div 16) \o <<HexDigitLower(n % 16)>>

\* f'{n:02x}': lowercase hex, zero-padded to at least two digits
Hex02(n) == IF n < 16 THEN <<48>> \o HexLower(n) ELSE HexLower(n)

\* str.encode(): the UTF-8 bytes of one code point below 0x10000
Utf8Char(c) ==
  IF c < 128 THEN <<c>>
  ELSE IF c < 2048 THEN <<192 + (c \div 64), 128 + (c % 64)>>
  ELSE <<224 + (c \div 4096), 128 + ((c \div 64) % 64), 128 + (c % 64)>>

RECURSIVE Utf8(_)
\* str.encode(): the UTF-8 bytes of a string
Utf8(s) == IF s = <<>> THEN <<>> ELSE Utf8Char(s[1]) \o Utf8(Tail(s))

\* bytes.decode() of pure-ASCII bytes (base64 output) and back to str
B64Char(i) ==
  IF i < 26 THEN 65 + i
  ELSE IF i < 52 THEN 97 + (i - 26)
  ELSE IF i < 62 THEN 48 + (i - 52)
  ELSE IF i = 62 THEN 43 ELSE 47

RECURSIVE B64(_)
\* base64.b64encode(b)
B64(b) ==
  IF b = <<>> THEN <<>>
  ELSE IF Len(b) = 1
    THEN <<B64Char(b[1] \div 4), B64Char((b[1] % 4) * 16), 61, 61>>
  ELSE IF Len(b) = 2
    THEN <<B64Char(b[1] \div 4), B64Char((b[1] % 4) * 16 + (b[2] \div 16)),
           B64Char((b[2] % 16) * 4), 61>>
  ELSE <<B64Char(b[1] \div 4), B64Char((b[1] % 4) * 16 + (b[2] \div 16)),
         B64Char((b[2] % 16) * 4 + (b[3] \div 64)), B64Char(b[3] % 64)>>
       \o B64(SubSeq(b, 4, Len(b)))

\* urllib.parse.quote: the always-safe characters are letters, digits, _ . - ~
AlwaysSafe == (65..90) \cup (97..122) \cup (48..57) \cup {95, 46, 45, 126}

QuoteByte(b, safe) ==
  IF b \in AlwaysSafe \cup safe THEN <<b>>
  ELSE <<37, HexDigitUpper(b \div 16), HexDigitUpper(b % 16)>>

RECURSIVE QuoteBytes(_, _)
QuoteBytes(b, safe) ==
  IF b = <<>> THEN <<>> ELSE QuoteByte(b[1], safe) \o QuoteBytes(Tail(b), safe)

\* urllib.parse.quote(s, safe)
Quote(s, safe) == QuoteBytes(Utf8(s), safe)

\* urllib.parse.quote_plus(s): a space is kept by quote() and then becomes '+'
QuotePlus(s) ==
  IF \E i \in 1..Len(s) : s[i] = 32
  THEN Replace(Quote(s, {32}), <<32>>, <<43>>)
  ELSE Quote(s, {})

\* the k-th outcome of random.choice under the pattern rnd
Choice(rnd, k) == rnd[((k - 1) % Len(rnd)) + 1]

\* the stream rnd after n outcomes have been consumed
Shift(rnd, n) == [i \in 1..Len(rnd) |-> Choice(rnd, i + n)]

\* the number of spaces among the first k characters of s
SpacesUpTo(s, k) == Cardinality({i \in 1..k : s[i] = 32})

(***************************************************************************)
(* The result of calling a transform: the string it returns, or the error  *)
(* that ends the call.                                                     *)
(***************************************************************************)
NotCalled == [status |-> "none", val |-> <<>>]

Returned(v) == [status |-> "returned", val |-> v]

Raised(e) == [status |-> e, val |-> <<>>]

(***************************************************************************)
(* The transforms, lines 10-110.  The ones that call random.choice take    *)
(* the stream of its outcomes.                                             *)
(***************************************************************************)
url_encoded(s) == QuotePlus(s)

\* the loop of lines 15-16 and of line 65: one random.choice per character
RandomiseCase(s, rnd) ==
  [i \in 1..Len(s) |-> IF Choice(rnd, i) THEN Upper(s[i]) ELSE Lower(s[i])]

mixed_case_spaces(s, rnd) ==
  Replace(Replace(RandomiseCase(s, rnd), sWAITFOR, sWAiTfOr), sDELAY, sDeLaY)

comment_before_parentheses(s) == Replace(s, <<40>>, sComment \o <<40>>)

plus2concat(s) == Replace(s, <<43>>, <<124, 124>>)

plus2fnconcat(s) == Replace(s, <<43>>, <<102, 110, 43>>)

\* random_comments with a fault: the comment follows a letter only when
\* random.choice says so
random_comments_sometimes(s, rnd) ==
  Join(<<>>, [i \in 1..Len(s) |->
                IF IsAlpha(s[i]) /\ Choice(rnd, i)
                THEN <<s[i]>> \o sComment ELSE <<s[i]>>])

\* random.choice is not called here: rnd is the state of the shared
\* generator, which the function leaves alone
random_comments(s, rnd) ==
  Join(<<>>, [i \in 1..Len(s) |->
                IF IsAlpha(s[i]) THEN <<s[i]>> \o sComment ELSE <<s[i]>>])

char_double_encode(s) ==
  Join(<<>>, [i \in 1..Len(s) |-> <<37>> \o Hex02(s[i]) \o <<37>> \o Hex02(s[i])])

\* charencode with a fault: the code point is cut to seven bits
charencode_7bit(s) ==
  Join(<<43>>, [i \in 1..Len(s) |-> sCHAR \o Dec(s[i] % 128) \o <<41>>])

charencode(s) ==
  Join(<<43>>, [i \in 1..Len(s) |-> sCHAR \o Dec(s[i]) \o <<41>>])

charunicodeencode(s) ==
  Join(<<43>>, [i \in 1..Len(s) |-> sNCHAR \o Dec(s[i]) \o <<41>>])

\* line 44: in the literal f'\u{ord(c):04x}' the escape \u is followed by
\* '{', not by four hex digits.  CPython rejects the literal ("truncated
\* \uXXXX escape"), so no call of the function returns, whatever s is.
charunicodeescape(s) == Raised("SyntaxError")

apostrophe_mask(s) == Replace(s, <<39>>, <<34>>)

apostrophenullencode(s) == Replace(s, <<39>>, sNullEnc)

append_nullbyte(s) == s \o <<0>>

base64_encode(s) == B64(Utf8(s))

lowercase(s) == [i \in 1..Len(s) |-> Lower(s[i])]

uppercase(s) == [i \in 1..Len(s) |-> Upper(s[i])]

random_case(s, rnd) == RandomiseCase(s, rnd)

space2comment(s) == Replace(s, <<32>>, sComment)

space2dash(s) == Replace(s, <<32>>, <<45, 45>>)

space2hash(s) == Replace(s, <<32>>, <<35>>)

space2morecomment(s) == Replace(s, <<32>>, sComment \o sComment)

space2morehash(s) == Replace(s, <<32>>, <<35, 35>>)

space2mssqlblank(s) == Replace(s, <<32>>, <<>>)

space2mssqlhash(s) == Replace(s, <<32>>, <<35>>)

space2mysqlblank(s) == Replace(s, <<32>>, <<>>)

space2mysqldash(s) == Replace(s, <<32>>, <<45, 45>>)

space2plus(s) == Replace(s, <<32>>, <<43>>)

\* space2randomblank with a fault: one choice is made for all the spaces
space2randomblank_one_choice(s, rnd) ==
  Join(<<>>, [i \in 1..Len(s) |->
                IF s[i] # 32 THEN <<s[i]>>
                ELSE IF Choice(rnd, 1) THEN <<>> ELSE <<32>>])

\* one random.choice(['', ' ']) per space, in order
space2randomblank(s, rnd) ==
  Join(<<>>, [i \in 1..Len(s) |->
                IF s[i] # 32 THEN <<s[i]>>
                ELSE IF Choice(rnd, SpacesUpTo(s, i)) THEN <<>> ELSE <<32>>])

sleep2getlock(s) == Replace(s, sWaitforDelay, sWaitforGetLock)

unionalltounion(s) == Replace(s, sUnionAll, sUnion)

unmagicquotes(s) == Replace(s, <<92, 39>>, <<39>>)

\* d_union with a fault: 'UNION ALL' is what is replaced
d_union_of_union_all(s) == Replace(s, sUnionAll, sDunion)

d_union(s) == Replace(s, sUnion, sDunion)

(***************************************************************************)
(* The variants list, lines 112-146.                                       *)
(***************************************************************************)
\* the element expressions of the list, in declaration order; the first is
\* the payload itself, the other 32 are calls of the transforms
Catalog ==
  << "base", "url_encoded", "mixed_case_spaces", "comment_before_parentheses",
     "plus2concat", "plus2fnconcat", "random_comments", "char_double_encode",
     "charencode", "charunicodeencode", "charunicodeescape", "apostrophe_mask",
     "apostrophenullencode", "append_nullbyte", "base64_encode", "lowercase",
     "uppercase", "random_case", "space2comment", "space2dash", "space2hash",
     "space2morecomment", "space2morehash", "space2mssqlblank",
     "space2mssqlhash", "space2mysqlblank", "space2mysqldash", "space2plus",
     "space2randomblank", "sleep2getlock", "unionalltounion", "unmagicquotes",
     "d_union" >>

TransformNames == {Catalog[i] : i \in 2..Len(Catalog)}

\* the element expression f of the list, evaluated on s
Apply(f, s, rnd) ==
  CASE f = "base" -> Returned(s)
    [] f = "url_encoded" -> Returned(url_encoded(s))
    [] f = "mixed_case_spaces" -> Returned(mixed_case_spaces(s, rnd))
    [] f = "comment_before_parentheses" -> Returned(comment_before_parentheses(s))
    [] f = "plus2concat" -> Returned(plus2concat(s))
    [] f = "plus2fnconcat" -> Returned(plus2fnconcat(s))
    [] f = "random_comments" -> Returned(random_comments(s, rnd))
    [] f = "char_double_encode" -> Returned(char_double_encode(s))
    [] f = "charencode" -> Returned(charencode(s))
    [] f = "charunicodeencode" -> Returned(charunicodeencode(s))
    [] f = "charunicodeescape" -> charunicodeescape(s)
    [] f = "apostrophe_mask" -> Returned(apostrophe_mask(s))
    [] f = "apostrophenullencode" -> Returned(apostrophenullencode(s))
    [] f = "append_nullbyte" -> Returned(append_nullbyte(s))
    [] f = "base64_encode" -> Returned(base64_encode(s))
    [] f = "lowercase" -> Returned(lowercase(s))
    [] f = "uppercase" -> Returned(uppercase(s))
    [] f = "random_case" -> Returned(random_case(s, rnd))
    [] f = "space2comment" -> Returned(space2comment(s))
    [] f = "space2dash" -> Returned(space2dash(s))
    [] f = "space2hash" -> Returned(space2hash(s))
    [] f = "space2morecomment" -> Returned(space2morecomment(s))
    [] f = "space2morehash" -> Returned(space2morehash(s))
    [] f = "space2mssqlblank" -> Returned(space2mssqlblank(s))
    [] f = "space2mssqlhash" -> Returned(space2mssqlhash(s))
    [] f = "space2mysqlblank" -> Returned(space2mysqlblank(s))
    [] f = "space2mysqldash" -> Returned(space2mysqldash(s))
    [] f = "space2plus" -> Returned(space2plus(s))
    [] f = "space2randomblank" -> Returned(space2randomblank(s, rnd))
    [] f = "sleep2getlock" -> Returned(sleep2getlock(s))
    [] f = "unionalltounion" -> Returned(unionalltounion(s))
    [] f = "unmagicquotes" -> Returned(unmagicquotes(s))
    [] f = "d_union" -> Returned(d_union(s))

\* the number of random.choice calls the element expression f makes on s
Draws(f, s) ==
  IF f \in {"mixed_case_spaces", "random_case"} THEN Len(s)
  ELSE IF f = "space2randomblank" THEN SpacesUpTo(s, Len(s))
  ELSE 0

RECURSIVE DrawsBefore(_, _)
\* the outcomes the shared generator has given before element i is evaluated
DrawsBefore(i, s) ==
  IF i = 1 THEN 0 ELSE DrawsBefore(i - 1, s) + Draws(Catalog[i - 1], s)

\* the elements of the list literal, evaluated in order on the payload
Elements(s, rnd) ==
  [i \in 1..Len(Catalog) |-> Apply(Catalog[i], s, Shift(rnd, DrawsBefore(i, s)))]

\* lines 149-152: one labelled block per element, then the base64_plain block
Blocks(vs, s) ==
  [i \in 1..Len(vs) |-> [label |-> "payload", n |-> i, text |-> vs[i]]]
  \o << [label |-> "base64_plain", n |-> 0, text |-> B64(Utf8(s))] >>

(***************************************************************************)
(* Inputs.                                                                 *)
(***************************************************************************)
\* space, apostrophe, 'a', pound sign (Latin-1, three decimal digits) and
\* euro sign (above 255)
Alphabet == {32, 39, 97, 163, 8364}

Strings(n) == UNION {[1..k -> Alphabet] : k \in 0..n}

\* "UNION ALL SELECT"
sUnionAllSelect == <<85, 78, 73, 79, 78, 32, 65, 76, 76, 32, 83, 69, 76, 69, 67, 84>>

\* "a+(b\'": the characters plus2concat, comment_before_parentheses and
\* unmagicquotes look for
sOperators == <<97, 43, 40, 98, 92, 39>>

Inputs == Strings(MaxLen) \cup {base, sUnionAllSelect, sOperators}

\* the patterns of random.choice outcomes of at most n outcomes
PatternsUpTo(n) == UNION {[1..k -> BOOLEAN] : k \in 1..n}

Patterns == PatternsUpTo(MaxRnd)

Seeds == PatternsUpTo(MaxSeed)

(***************************************************************************)
(* The state machine.                                                      *)
(*   fn, arg      the transform under study and the string it is given     *)
(*   res1, res2   the results of its first and second call on arg          *)
(*   seed         the outcomes the shared generator of a script run gives  *)
(*   pc           where the execution of the module as a script is         *)
(*   variants     the list bound at line 112 (empty while unbound)         *)
(*   printed      the blocks printed by lines 149-152                      *)
(* Spec studies the transforms one call at a time; SpecScript is the       *)
(* execution of the whole module.                                          *)
(***************************************************************************)
NoScript ==
  /\ seed = <<TRUE>>
  /\ pc = "start"
  /\ variants = <<>>
  /\ printed = <<>>

NoCall ==
  /\ fn = "base"
  /\ arg = base
  /\ res1 = NotCalled
  /\ res2 = NotCalled

Init ==
  /\ fn \in TransformNames
  /\ arg \in Inputs
  /\ res1 = NotCalled
  /\ res2 = NotCalled
  /\ NoScript

\* the first call fn(arg)
Call1 ==
  /\ fn \in TransformNames
  /\ res1 = NotCalled
  /\ \E rnd \in Patterns : res1' = Apply(fn, arg, rnd)
  /\ UNCHANGED <<fn, arg, res2, seed, pc, variants, printed>>

\* a second call fn(arg), the shared generator being in another state
Call2 ==
  /\ res1 # NotCalled
  /\ res2 = NotCalled
  /\ \E rnd \in Patterns : res2' = Apply(fn, arg, rnd)
  /\ UNCHANGED <<fn, arg, res1, seed, pc, variants, printed>>

Next == Call1 \/ Call2

Spec == Init /\ [][Next]_vars

\* the generator is seeded from the system's entropy when random is imported
InitScript ==
  /\ NoCall
  /\ seed \in Seeds
  /\ pc = "start"
  /\ variants = <<>>
  /\ printed = <<>>

\* the execution of the module as a script: the list literal is evaluated
\* element by element, bound to variants only when every element has a
\* value, and then printed
Run ==
  /\ pc = "start"
  /\ LET es == Elements(base, seed)
     IN IF \A i \in 1..Len(es) : es[i].status = "returned"
        THEN /\ variants' = [i \in 1..Len(es) |-> es[i].val]
             /\ printed' = Blocks(variants', base)
             /\ pc' = "done"
        ELSE /\ pc' = "SyntaxError"
             /\ UNCHANGED <<variants, printed>>
  /\ UNCHANGED <<fn, arg, res1, res2, seed>>

NextScript == Run

SpecScript == InitScript /\ [][NextScript]_vars

(***************************************************************************)
(* Notions the properties are stated with.                                 *)
(***************************************************************************)
\* sub occurs in s
Contains(s, sub) ==
  \E i \in 1..(Len(s) + 1 - Len(sub)) : SubSeq(s, i, i + Len(sub) - 1) = sub

RECURSIVE SplitPlus(_)
\* the terms of a '+'-separated SQL concatenation; the empty string has none
SplitPlus(s) ==
  IF s = <<>> THEN <<>>
  ELSE IF \E i \in 1..Len(s) : s[i] = 43
    THEN LET i == CHOOSE j \in 1..Len(s) :
                    s[j] = 43 /\ \A k \in 1..(j - 1) : s[k] # 43
         IN <<SubSeq(s, 1, i - 1)>> \o
            (IF i = Len(s) THEN << <<>> >> ELSE SplitPlus(SubSeq(s, i + 1, Len(s))))
    ELSE <<s>>

\* the digits between the prefix and the closing parenthesis of a term
TermDigits(t, prefix) == SubSeq(t, Len(prefix) + 1, Len(t) - 1)

\* t reads prefix, a decimal number without sign or padding, ')'
IsTerm(t, prefix) ==
  /\ Len(t) >= Len(prefix) + 2
  /\ SubSeq(t, 1, Len(prefix)) = prefix
  /\ t[Len(t)] = 41
  /\ \A i \in 1..Len(TermDigits(t, prefix)) : TermDigits(t, prefix)[i] \in 48..57
  /\ (Len(TermDigits(t, prefix)) > 1 => TermDigits(t, prefix)[1] # 48)

RECURSIVE ParseDec(_)
\* the number a sequence of decimal digits denotes
ParseDec(d) ==
  IF d = <<>> THEN 0
  ELSE ParseDec(SubSeq(d, 1, Len(d) - 1)) * 10 + (d[Len(d)] - 48)

TermValue(t, prefix) == ParseDec(TermDigits(t, prefix))

\* the strings left when the spaces at the positions D of s are deleted
Without(s, D) ==
  LET kept(i) == Cardinality({j \in 1..i : j \notin D})
      n == kept(Len(s))
  IN [k \in 1..n |-> s[CHOOSE i \in 1..Len(s) : i \notin D /\ kept(i) = k]]

SpacePositions(s) == {i \in 1..Len(s) : s[i] = 32}

DeleteSubsets(s) == {Without(s, D) : D \in SUBSET SpacePositions(s)}

\* a four-digit zero-padded lowercase hex number
Hex04(n) ==
  <<HexDigitLower((n \div 4096) % 16), HexDigitLower((n \div 256) % 16),
    HexDigitLower((n \div 16) % 16), HexDigitLower(n % 16)>>

IsAscii(s) == \A i \in 1..Len(s) : s[i] < 128

\* the transforms that call random.choice
Randomised == {"mixed_case_spaces", "random_case", "space2randomblank"}

\* the script has ended, one way or the other
Ended == pc # "start"

(***************************************************************************)
(* Properties.                                                             *)
(***************************************************************************)

\* C1: whatever random.choice answers, mixed_case_spaces of the canonical
\* payload contains 'WAiTfOr   ' and 'DeLaY '.
C1_ForcedSubstrings ==
  (fn = "mixed_case_spaces" /\ arg = base /\ res1.status = "returned")
    => /\ Contains(res1.val, sWAiTfOr)
       /\ Contains(res1.val, sDeLaY)

\* C2: the script produces exactly 33 entries: 32 from the catalog and the
\* baseline entry.
C2_ThirtyThreeEntries ==
  Ended =>
    /\ Len(printed) = 33
    /\ Cardinality({i \in 1..Len(printed) : printed[i].label = "payload"}) = 32
    /\ Cardinality({i \in 1..Len(printed) : printed[i].label = "base64_plain"}) = 1

\* C3: the entries come in catalog order, each the transform of the original
\* payload; entry 1 is the payload itself and the last entry is the base64
\* encoding of the payload.
C3_OrderAndBaseline ==
  Ended =>
    /\ Len(printed) = Len(Catalog) + 1
    /\ \A i \in 1..Len(Catalog) :
         \E rnd \in Seeds : printed[i].text = Apply(Catalog[i], base, rnd).val
    /\ printed[1].text = base
    /\ printed[Len(printed)].text = base64_encode(base)

C5_NoCharAbove255 ==
  (fn = "charencode" /\ res1 # NotCalled /\ \E i \in 1..Len(arg) : arg[i] > 255)
    => \/ res1.status = "UnsupportedCodepoint"
       \/ /\ res1.status = "returned"
          /\ LET ts == SplitPlus(res1.val)
             IN /\ Len(ts) = Len(arg)
                /\ \A i \in 1..Len(ts) :
                     IF arg[i] > 255
                     THEN IsTerm(ts[i], sNCHAR) /\ TermValue(ts[i], sNCHAR) = arg[i]
                     ELSE IsTerm(ts[i], sCHAR) /\ TermValue(ts[i], sCHAR) <= 255

\* C6: for an input whose characters are all at most 255, charencode gives
\* one CHAR(n) term per character, separated by '+', and the characters the
\* numbers denote are the input again.
C6_CharencodeRoundTrip ==
  (fn = "charencode" /\ res1 # NotCalled /\ \A i \in 1..Len(arg) : arg[i] <= 255)
    => /\ res1.status = "returned"
       /\ LET ts == SplitPlus(res1.val)
          IN /\ Len(ts) = Len(arg)
             /\ \A i \in 1..Len(ts) : IsTerm(ts[i], sCHAR)
             /\ [i \in 1..Len(ts) |-> TermValue(ts[i], sCHAR)] = arg

C6_Witness ==
  /\ fn = "charencode"
  /\ res1.status = "returned"
  /\ Len(arg) = 2
  /\ arg[1] = 163
  /\ arg[2] = 32

\* C7 as stated: unionalltounion of "UNION ALL SELECT" is "UNION SELECT" and
\* d_union of the same string is "DUNION SELECT".
C7_AsStated ==
  (arg = sUnionAllSelect /\ res1 # NotCalled)
    => /\ fn = "unionalltounion" => res1 = Returned(sUnion \o SubSeq(sUnionAllSelect, 10, 16))
       /\ fn = "d_union" => res1 = Returned(sDunion \o SubSeq(sUnionAllSelect, 10, 16))

\* C7 amended: unionalltounion of "UNION ALL SELECT" is "UNION SELECT" and
\* d_union of the same string is "DUNION ALL SELECT".
C7_Amended ==
  (arg = sUnionAllSelect /\ res1 # NotCalled)
    => /\ fn = "unionalltounion" => res1 = Returned(sUnion \o SubSeq(sUnionAllSelect, 10, 16))
       /\ fn = "d_union" => res1 = Returned(<<68>> \o sUnionAllSelect)

C7_Witness ==
  /\ fn = "d_union"
  /\ arg = sUnionAllSelect
  /\ res1.status = "returned"
  /\ Len(res1.val) = Len(sUnionAllSelect) + 1

\* C8: on an ASCII input every transform returns a string, charunicodeescape
\* returning one \uXXXX escape per character, and the script runs to
\* completion.
C8_Total ==
  /\ (res1 # NotCalled /\ IsAscii(arg)) =>
       /\ res1.status = "returned"
       /\ fn = "charunicodeescape" =>
            res1.val = Join(<<>>, [i \in 1..Len(arg) |-> <<92, 117>> \o Hex04(arg[i])])
  /\ Ended => pc = "done"

\* C9: the strings space2randomblank can return for s are exactly the
\* strings left when some of the spaces of s are deleted.
C9_DeleteOrKeep ==
  fn = "space2randomblank" =>
    /\ res1 # NotCalled => res1.status = "returned" /\ res1.val \in DeleteSubsets(arg)
    /\ res1 = NotCalled =>
         \A t \in DeleteSubsets(arg) : ENABLED (Call1 /\ res1' = Returned(t))

C9_Witness ==
  /\ fn = "space2randomblank"
  /\ res1.status = "returned"
  /\ Len(res1.val) < Len(arg)
  /\ \E i \in 1..Len(res1.val) : res1.val[i] = 32
  /\ \E i \in 1..Len(arg) : arg[i] # 32

\* C10: comment_before_parentheses, plus2concat, plus2fnconcat,
\* unionalltounion, unmagicquotes and d_union leave the canonical payload as
\* it is, so at least seven entries of the variants list equal the payload.
C10_SevenUnchanged ==
  Ended =>
    /\ \A i \in 1..Len(Catalog) :
         Catalog[i] \in {"comment_before_parentheses", "plus2concat", "plus2fnconcat",
                         "unionalltounion", "unmagicquotes", "d_union"}
           => i <= Len(variants) /\ variants[i] = base
    /\ Cardinality({i \in 1..Len(variants) : variants[i] = base}) >= 7

====
